---- MODULE Spec2Model ----
(***************************************************************************)
(* Model of the request dispatch layer of the AI study assistant front     *)
(* end: fetchJSON (lib/http.ts), its deadline timer, the merge of the      *)
(* caller's AbortSignal, the retry loop and the error classification.      *)
(*                                                                         *)
(* One step of the model is one synchronous run of fetchJSON between two   *)
(* awaits, or one event of the host: a timer firing, the transport         *)
(* answering, the caller aborting its signal.  Calls are made one after    *)
(* the other and share the caller's signal.                                *)
(*                                                                         *)
(* Above it: the api object, whose methods call fetchJSON without options, *)
(* and App.run, its only caller (AppSpec).  PairSpec runs two calls of     *)
(* fetchJSON interleaved, each on its own locals.  VqaSpec is the VisualQA *)
(* component, which calls fetch itself; ReviewSpec is FlashcardReview.     *)
(***************************************************************************)
EXTENDS Integers, FiniteSets, Sequences, TLC

\* Bounds of the model
MaxRetries == 2
MaxCalls == 2
MaxCards == 3
MaxTries == 2

\* ------------------------------------------------------------------------
\* Values
\* ------------------------------------------------------------------------

\* HTTP statuses the transport may answer with
Statuses == {200, 404, 500, 502, 503, 504}

\* Response bodies: "errObj" is {"error":"not found"}, "errNum" is
\* {"error":42}, "plainObj" a JSON object without an error field, "v1" and
\* "v2" two JSON values, "nonJson" a body that is not JSON.
Bodies == {"errObj", "errNum", "plainObj", "v1", "v2", "nonJson"}

\* opts.retryDelayMs the callers pass; 600 is the default
RetryDelays == {300, 600}

\* opts.timeoutMs and opts.retryDelayMs the callers pass: the defaults, or a
\* shorter deadline with a shorter delay
Timings ==
  {[timeoutMs |-> IF d = 600 THEN 15000 ELSE 5000, retryDelayMs |-> d] : d \in RetryDelays}

\* res.ok: the status is in 200..299
IsOk(status) == status >= 200 /\ status <= 299

\* res.json(): the decoded body, or a failure for a body that is not JSON
JsonDecodes(body) == body # "nonJson"

\* `HTTP ${res.status} ${res.statusText}`
SynthesizedMessage(status) ==
  CASE status = 200 -> "HTTP 200 OK"
    [] status = 404 -> "HTTP 404 Not Found"
    [] status = 500 -> "HTTP 500 Internal Server Error"
    [] status = 502 -> "HTTP 502 Bad Gateway"
    [] status = 503 -> "HTTP 503 Service Unavailable"
    [] status = 504 -> "HTTP 504 Gateway Timeout"

HasErrorFieldAnyBody(body) == body # "undefined"

\* body && typeof body === "object" && "error" in body
HasErrorField(body) == body \in {"errObj", "errNum"}

\* String(body.error)
ErrorField(body) ==
  CASE body = "errObj" -> "not found"
    [] body = "errNum" -> "42"
    [] OTHER -> "undefined"

MkError(name, message, status, body) ==
  [name |-> name, message |-> message, status |-> status, body |-> body]

NoError == MkError("none", "", 0, "undefined")

\* new HttpError(res.status, msg, body)
HttpError(status, body) ==
  MkError("HttpError",
          IF HasErrorField(body) THEN ErrorField(body) ELSE SynthesizedMessage(status),
          status, body)

\* the DOMException fetch and body reads reject with once their signal is aborted
AbortError == MkError("AbortError", "The operation was aborted.", 0, "undefined")

\* the TypeError fetch rejects with on a network failure
NetworkError == MkError("TypeError", "Failed to fetch", 0, "undefined")

\* the SyntaxError res.json() rejects with on a body that is not JSON
DecodeError == MkError("SyntaxError", "Unexpected token", 0, "undefined")

\* new Error("Request timed out. Check the server and try again.")
TimeoutError ==
  MkError("Error", "Request timed out. Check the server and try again.", 0, "undefined")

NoRes == [status |-> 0, body |-> "undefined"]

Pending == [state |-> "pending", value |-> "undefined", error |-> NoError, cause |-> "none"]
Resolved(v) == [state |-> "resolved", value |-> v, error |-> NoError, cause |-> "none"]
Rejected(e, c) == [state |-> "rejected", value |-> "undefined", error |-> e, cause |-> c]

\* ------------------------------------------------------------------------
\* State
\* ------------------------------------------------------------------------
VARIABLES
  callNo,             \* number of fetchJSON calls made so far; the current one
  pc,                 \* where the current call is suspended
  retries,            \* opts.retries of the current call
  retryDelayMs,       \* opts.retryDelayMs of the current call
  hasSignal,          \* whether opts.signal was supplied
  attempt,            \* the loop counter
  timers,             \* pending deadline timers, <<call, attempt>>
  controllerAborted,  \* controller.signal.aborted of the current attempt
  mergedAborted,      \* aborted flag of the second AbortController (signal supplied)
  signalAborted,      \* the caller's signal.aborted
  listeners,          \* "abort" listeners attached to the caller's signal, <<call, attempt>>
  res,                \* the response in hand
  caught,             \* the error caught by the last catch, with what caused it
  result,             \* the state of the promise the current call returned
  abortLog,           \* <<cause, error>> of every call so far that an abort ended
  fetchCalls,         \* invocations of fetch by the current call
  sleeps,             \* retry delays started by the current call
  waited,             \* milliseconds of retry delay the current call asked for
  inflight,           \* fetches whose promise is pending, <<call, attempt>>
  causes,             \* what made the attempts of the current call fail so far
  settles,            \* times the current call's promise was settled
  cancelAt,           \* where the current call was when its signal fired
  timeoutMs,          \* opts.timeoutMs of the current call
  feature,            \* the api method that made the current call, "none" for another caller
  vqa,                \* the VisualQA component: its state and where handleSubmit is
  pair,               \* the locals of two fetchJSON calls that run interleaved
  app,                \* the App component: its state and where run is
  review              \* the FlashcardReview component

vars == <<callNo, pc, retries, hasSignal, attempt, timers, controllerAborted,
          mergedAborted, signalAborted, listeners, res, caught, result,
          abortLog, fetchCalls, sleeps, settles, cancelAt, retryDelayMs,
          waited, inflight, causes, timeoutMs, feature, vqa, pair,
          app, review>>

\* the state of the components above fetchJSON
appVars == <<feature, vqa, app, review>>

\* the state of fetchJSON, its timers and the caller's signal
httpVars == <<callNo, pc, retries, hasSignal, attempt, timers, controllerAborted,
              mergedAborted, signalAborted, listeners, res, caught, result,
              abortLog, fetchCalls, sleeps, settles, cancelAt, retryDelayMs,
              waited, inflight, causes, timeoutMs>>

\* the methods of the api object; the tabs of App are named after them
Features == {"summarize", "flashcards", "quiz", "keywords", "paraphrase"}

\* the input texts: empty, blank, and some notes
Texts == {"", "  ", "notes"}

\* useState of App: tab Summarize, text "", loading false, error null, the
\* five outputs null
AppInit ==
  [pc |-> "idle", tab |-> "summarize", text |-> "", loading |-> FALSE,
   error |-> "null", out |-> [f \in Features |-> "null"]]

\* useState of FlashcardReview for a deck of n cards, 0 while the component
\* is not mounted; completeTick flips at every onReviewComplete
ReviewInit(n) ==
  [n |-> n, currentIndex |-> 0, isFlipped |-> FALSE, userAnswer |-> "",
   showResult |-> FALSE, isCorrect |-> FALSE, attempts |-> 0, results |-> 0,
   completeTick |-> FALSE]

\* useState of VisualQA: image null, preview "", question "", loading false,
\* result null, error null; input is the file the file input holds, reading
\* the files a FileReader is reading
VqaInit ==
  [pc |-> "idle", loading |-> FALSE, error |-> "null", result |-> "null",
   image |-> "null", preview |-> "", question |-> "", input |-> "",
   reading |-> {}]

\* the two calls that run interleaved
PairIds == {"a", "b"}

\* the locals of a fetchJSON call that has not been made yet
PairIdle ==
  [pc |-> "idle", retries |-> 0, attempt |-> 0, timer |-> FALSE,
   aborted |-> FALSE, seen |-> <<>>, result |-> Pending]

CallIds == 1..MaxCalls

NoCaught == [err |-> NoError, cause |-> "none"]

Init ==
  /\ callNo = 0
  /\ pc = "idle"
  /\ retries = 0
  /\ hasSignal = FALSE
  /\ attempt = 0
  /\ timers = {}
  /\ controllerAborted = FALSE
  /\ mergedAborted = FALSE
  /\ signalAborted = FALSE
  /\ listeners = {}
  /\ res = NoRes
  /\ caught = NoCaught
  /\ result = Pending
  /\ abortLog = {}
  /\ fetchCalls = 0
  /\ sleeps = 0
  /\ settles = 0
  /\ cancelAt = "none"
  /\ retryDelayMs = 600
  /\ waited = 0
  /\ inflight = {}
  /\ causes = {}
  /\ timeoutMs = 15000
  /\ feature = "none"
  /\ vqa = VqaInit
  /\ app = AppInit
  /\ review = ReviewInit(0)
  /\ pair = [i \in PairIds |-> PairIdle]

\* ------------------------------------------------------------------------
\* fetchJSON
\* ------------------------------------------------------------------------

\* the timer and the listener of the current attempt
Cur == <<callNo, attempt>>

\* signal: mergedSignal instanceof AbortController ? mergedSignal.signal : controller.signal
\* where mergedSignal = signal ? new AbortController() : controller
FetchSignalAborted == IF hasSignal THEN mergedAborted ELSE controllerAborted

\* [502, 503, 504]
TransientStatuses == {502, 503, 504}

\* const isAbort = err?.name === "AbortError"
IsAbort(err) == err.name = "AbortError"

TransientAny5xx(err) ==
  IsAbort(err) \/ (err.name = "HttpError" /\ err.status >= 500)

TransientNonHttp(err) ==
  err.name # "HttpError" \/ err.status \in TransientStatuses

\* const transient = isAbort || (err instanceof HttpError && [502,503,504].includes(err.status))
Transient(err) ==
  IsAbort(err) \/ (err.name = "HttpError" /\ err.status \in TransientStatuses)

ShouldRetryOffByOne(att, r, err) == att <= r + 1 /\ Transient(err)

ShouldRetryStrict(att, r, err) == att < r /\ Transient(err)

\* if (attempt <= retries && transient)
ShouldRetry(att, r, err) == att <= r /\ Transient(err)

\* if (isAbort) throw new Error("Request timed out. ..."); throw err;
Surfaced(err) == IF IsAbort(err) THEN TimeoutError ELSE err

ClearTimeoutMissing(ts, t) == ts

\* clearTimeout(timeout) before the retry delay
ClearTimeout(ts, t) == ts \ {t}

FinallyNoClear(ts, t) == ts

\* finally { clearTimeout(timeout); }
Finally(ts, t) == ts \ {t}

DelaySkipped(n, ms, d) == <<n, ms>>

\* await sleep(retryDelayMs): the delays started and the milliseconds asked for
Delay(n, ms, d) == <<n + 1, ms + d>>

FetchLingers(fs, f) == fs

\* the promise of fetch f settles: the fetch is no longer in flight
FetchSettled(fs, f) == fs \ {f}

StartAttemptNoPreCheck(c, a, sig, ts, fc) ==
  /\ attempt' = a
  /\ controllerAborted' = FALSE
  /\ timers' = ts \cup {<<c, a>>}
  /\ mergedAborted' = FALSE
  /\ listeners' = IF sig THEN listeners \cup {<<c, a>>} ELSE listeners
  /\ fetchCalls' = fc + 1
  /\ inflight' = inflight \cup {<<c, a>>}
  /\ pc' = "fetch"

\* The head of the loop up to the await of fetch: attempt a of call c, with
\* the timers ts left by the previous iteration.
StartAttempt(c, a, sig, ts, fc) ==
  /\ attempt' = a
  /\ controllerAborted' = FALSE
  /\ timers' = ts \cup {<<c, a>>}
  /\ IF sig
       THEN IF signalAborted
              THEN /\ mergedAborted' = TRUE
                   /\ listeners' = listeners
              ELSE /\ mergedAborted' = FALSE
                   /\ listeners' = listeners \cup {<<c, a>>}
       ELSE /\ mergedAborted' = FALSE
            /\ listeners' = listeners
  /\ fetchCalls' = fc + 1
  /\ inflight' = inflight \cup {<<c, a>>}
  /\ pc' = "fetch"

\* fetchJSON(path, init, opts) is called, with r, d and sig what the
\* destructuring of opts gives for retries, retryDelayMs and signal
Call(r, d, sig) ==
  /\ pc \in {"idle", "done"}
  /\ callNo < MaxCalls
  /\ callNo' = callNo + 1
  /\ retries' = r
  /\ retryDelayMs' = d
  /\ waited' = 0
  /\ causes' = {}
  /\ hasSignal' = sig
  /\ res' = NoRes
  /\ caught' = NoCaught
  /\ sleeps' = 0
  /\ settles' = 0
  /\ cancelAt' = IF sig /\ signalAborted THEN "before" ELSE "none"
  /\ result' = Pending
  /\ StartAttempt(callNo + 1, 1, sig, timers, 0)
  /\ UNCHANGED <<signalAborted, abortLog>>

\* The promise of the current call settles with o.
Settle(o) ==
  /\ result' = o
  /\ settles' = settles + 1
  /\ abortLog' = IF o.cause \in {"deadline", "caller"}
                   THEN abortLog \cup {<<o.cause, o.error>>}
                   ELSE abortLog

\* The catch block and the finally that follows it, for the error err that
\* cause c produced.
Catch(err, c) ==
  /\ res' = NoRes
  /\ causes' = causes \cup {c}
  /\ IF ShouldRetry(attempt, retries, err)
       THEN /\ caught' = [err |-> err, cause |-> c]
            /\ timers' = ClearTimeout(timers, Cur)
            /\ sleeps' = Delay(sleeps, waited, retryDelayMs)[1]
            /\ waited' = Delay(sleeps, waited, retryDelayMs)[2]
            /\ pc' = "sleep"
            /\ UNCHANGED <<result, abortLog, settles>>
       ELSE /\ caught' = NoCaught
            /\ timers' = Finally(timers, Cur)
            /\ Settle(Rejected(Surfaced(err), c))
            /\ UNCHANGED <<sleeps, waited>>
            /\ pc' = "done"

\* what aborted the signal handed to fetch: only the caller's listener aborts
\* the second controller, only the timer aborts the first
AbortCause == IF hasSignal THEN "caller" ELSE "deadline"

\* await fetch(...) rejects because its signal is aborted
FetchAbort ==
  /\ pc = "fetch"
  /\ FetchSignalAborted
  /\ Catch(AbortError, AbortCause)
  /\ inflight' = FetchSettled(inflight, Cur)
  /\ UNCHANGED <<callNo, retries, hasSignal, attempt, controllerAborted,
                 mergedAborted, signalAborted, listeners, fetchCalls, cancelAt,
                 retryDelayMs, timeoutMs, appVars, pair>>

\* await fetch(...) rejects with a network error
FetchNetworkError ==
  /\ pc = "fetch"
  /\ ~FetchSignalAborted
  /\ Catch(NetworkError, "network")
  /\ inflight' = FetchSettled(inflight, Cur)
  /\ UNCHANGED <<callNo, retries, hasSignal, attempt, controllerAborted,
                 mergedAborted, signalAborted, listeners, fetchCalls, cancelAt,
                 retryDelayMs, timeoutMs, appVars, pair>>

FetchRespondKeepsTimer(status, body) ==
  /\ pc = "fetch"
  /\ ~FetchSignalAborted
  /\ res' = [status |-> status, body |-> body]
  /\ IF IsOk(status)
       THEN /\ pc' = "decode"
            /\ timers' = timers
       ELSE /\ pc' = "errbody"
            /\ timers' = timers
  /\ inflight' = FetchSettled(inflight, Cur)
  /\ UNCHANGED <<callNo, retries, hasSignal, attempt, controllerAborted,
                 mergedAborted, signalAborted, listeners, caught, result,
                 abortLog, fetchCalls, sleeps, settles, cancelAt, retryDelayMs, timeoutMs, appVars, pair,
                 waited, causes>>

\* await fetch(...) resolves with a response
FetchRespond(status, body) ==
  /\ pc = "fetch"
  /\ ~FetchSignalAborted
  /\ res' = [status |-> status, body |-> body]
  /\ IF IsOk(status)
       THEN /\ pc' = "decode"
            /\ timers' = Finally(timers, Cur)
       ELSE /\ pc' = "errbody"
            /\ timers' = timers
  /\ inflight' = FetchSettled(inflight, Cur)
  /\ UNCHANGED <<callNo, retries, hasSignal, attempt, controllerAborted,
                 mergedAborted, signalAborted, listeners, caught, result,
                 abortLog, fetchCalls, sleeps, settles, cancelAt, retryDelayMs, timeoutMs, appVars, pair,
                 waited, causes>>

ErrBodiesRawText(r, aborted) == {r.body}

\* The bodies `await res.json()` of the !res.ok branch can leave in `body`:
\* the decoded value, or undefined when the read throws.
ErrBodies(r, aborted) ==
  {IF JsonDecodes(r.body) THEN r.body ELSE "undefined"}
    \cup (IF aborted THEN {"undefined"} ELSE {})

\* the !res.ok branch after the body was read: throw new HttpError(...)
ErrBodyDone ==
  /\ pc = "errbody"
  /\ \E b \in ErrBodies(res, FetchSignalAborted) :
        Catch(HttpError(res.status, b), "http")
  /\ UNCHANGED <<callNo, retries, hasSignal, attempt, controllerAborted,
                 mergedAborted, signalAborted, listeners, fetchCalls, cancelAt,
                 retryDelayMs, timeoutMs, appVars, pair, inflight>>

DecodeResultsNoValue(r, aborted) == {Resolved("undefined")}

DecodeResultsSwallow(r, aborted) ==
  {IF JsonDecodes(r.body) THEN Resolved(r.body) ELSE Resolved("undefined")}
    \cup (IF aborted THEN {Rejected(AbortError, "caller")} ELSE {})

\* The ways the promise of `return res.json()` can settle.
DecodeResults(r, aborted) ==
  {IF JsonDecodes(r.body) THEN Resolved(r.body) ELSE Rejected(DecodeError, "decode")}
    \cup (IF aborted THEN {Rejected(AbortError, AbortCause)} ELSE {})

\* the promise returned by `return res.json()` settles
DecodeDone ==
  /\ pc = "decode"
  /\ \E o \in DecodeResults(res, FetchSignalAborted) : Settle(o)
  /\ res' = NoRes
  /\ pc' = "done"
  /\ UNCHANGED <<callNo, retries, hasSignal, attempt, timers, controllerAborted,
                 mergedAborted, signalAborted, listeners, caught,
                 fetchCalls, sleeps, cancelAt, retryDelayMs, timeoutMs, appVars, pair, waited, inflight,
                 causes>>

\* await sleep(retryDelayMs) is over: continue, through the finally, to the
\* next iteration
SleepDone ==
  /\ pc = "sleep"
  /\ StartAttempt(callNo, attempt + 1, hasSignal, Finally(timers, Cur), fetchCalls)
  /\ caught' = NoCaught
  /\ UNCHANGED <<callNo, retries, hasSignal, signalAborted, res, result, abortLog,
                 sleeps, settles, cancelAt, retryDelayMs, timeoutMs, appVars, pair, waited, causes>>

\* ------------------------------------------------------------------------
\* The host
\* ------------------------------------------------------------------------

TimerFireAbortsCaller ==
  /\ \E t \in timers :
       /\ timers' = timers \ {t}
       /\ controllerAborted' = (controllerAborted \/ t = Cur)
  /\ signalAborted' = TRUE
  /\ UNCHANGED <<callNo, pc, retries, hasSignal, attempt, mergedAborted,
                 listeners, res, caught, result, abortLog,
                 fetchCalls, sleeps, settles, cancelAt, retryDelayMs, timeoutMs, appVars, pair, waited,
                 inflight, causes>>

\* a deadline timer fires: () => controller.abort()
TimerFire ==
  /\ \E t \in timers :
       /\ timers' = timers \ {t}
       /\ controllerAborted' = (controllerAborted \/ t = Cur)
  /\ UNCHANGED <<callNo, pc, retries, hasSignal, attempt, mergedAborted,
                 signalAborted, listeners, res, caught, result, abortLog,
                 fetchCalls, sleeps, settles, cancelAt, retryDelayMs, timeoutMs, appVars, pair, waited,
                 inflight, causes>>

\* the caller aborts its signal: every listener runs once and is removed
CallerAbort ==
  /\ ~signalAborted
  /\ signalAborted' = TRUE
  /\ listeners' = {}
  /\ mergedAborted' = (mergedAborted \/ Cur \in listeners)
  /\ cancelAt' = IF hasSignal /\ pc \notin {"idle", "done"} THEN pc ELSE cancelAt
  /\ UNCHANGED <<callNo, pc, retries, hasSignal, attempt, timers,
                 controllerAborted, res, caught, result, abortLog, fetchCalls,
                 sleeps, settles, retryDelayMs, timeoutMs, appVars, pair, waited, inflight, causes>>

\* timeoutMs = 15_000, retries = 1, retryDelayMs = 600
DefaultTimeoutMs == 15000
DefaultRetries == 1
DefaultRetryDelayMs == 600

\* the options object: a function from the names of the fields given
NoOpts == [k \in {} |-> 0]

\* one field of the destructuring of opts, with its default
OptOr(opts, k, dflt) == IF k \in DOMAIN opts THEN opts[k] ELSE dflt

\* const { timeoutMs = 15_000, retries = 1, retryDelayMs = 600, signal } = opts
FetchJSON(opts) ==
  /\ Call(OptOr(opts, "retries", DefaultRetries),
          OptOr(opts, "retryDelayMs", DefaultRetryDelayMs),
          "signal" \in DOMAIN opts)
  /\ timeoutMs' = OptOr(opts, "timeoutMs", DefaultTimeoutMs)

\* a caller other than the api object calls fetchJSON with every option given
CallWith(t, r, d, sig) ==
  /\ Call(r, d, sig)
  /\ timeoutMs' = t
  /\ feature' = "none"
  /\ UNCHANGED <<vqa, pair, app, review>>

\* ------------------------------------------------------------------------
\* The api object and the VisualQA component
\* ------------------------------------------------------------------------

PostJSONWithRetries(f) ==
  /\ FetchJSON([retries |-> MaxRetries])
  /\ feature' = f
  /\ UNCHANGED <<vqa, pair, review>>

\* api[f](d): postJSON(path, d), which calls fetchJSON(path, init) without
\* options; the caller says what becomes of its own state
PostJSON(f) ==
  /\ FetchJSON(NoOpts)
  /\ feature' = f
  /\ UNCHANGED <<vqa, pair, review>>

\* text.trim()
Trim(t) == IF t \in {"", "  "} THEN "" ELSE t

\* 10 * 1024 * 1024
MaxImageBytes == 10 * 1024 * 1024

\* the files the user picks: a small image, an image of exactly 10 MB, an
\* image one byte larger, and a document
Files ==
  {[name |-> "a.png", size |-> 1024, type |-> "image/png"],
   [name |-> "b.jpg", size |-> MaxImageBytes, type |-> "image/jpeg"],
   [name |-> "huge.png", size |-> MaxImageBytes + 1, type |-> "image/png"],
   [name |-> "notes.pdf", size |-> 1024, type |-> "application/pdf"]}

\* file.type.startsWith('image/')
StartsWithImage(type) == type \in {"image/png", "image/jpeg"}

VqaUploadSizeInclusive(file) ==
  /\ file.name # vqa.input
  /\ IF file.size >= MaxImageBytes
       THEN vqa' = [vqa EXCEPT !.input = file.name,
                               !.error = "Image size must be less than 10MB"]
       ELSE IF ~StartsWithImage(file.type)
         THEN vqa' = [vqa EXCEPT !.input = file.name,
                                 !.error = "Please upload a valid image file"]
         ELSE vqa' = [vqa EXCEPT !.input = file.name, !.image = file.name,
                                 !.error = "null",
                                 !.reading = vqa.reading \cup {file.name}]
  /\ UNCHANGED <<httpVars, feature, pair, app, review>>

\* handleImageUpload for the change event of the file input, which the
\* browser sends when the input's file changes
VqaUpload(file) ==
  /\ file.name # vqa.input
  /\ IF file.size > MaxImageBytes
       THEN vqa' = [vqa EXCEPT !.input = file.name,
                               !.error = "Image size must be less than 10MB"]
       ELSE IF ~StartsWithImage(file.type)
         THEN vqa' = [vqa EXCEPT !.input = file.name,
                                 !.error = "Please upload a valid image file"]
         ELSE vqa' = [vqa EXCEPT !.input = file.name, !.image = file.name,
                                 !.error = "null",
                                 !.reading = vqa.reading \cup {file.name}]
  /\ UNCHANGED <<httpVars, feature, pair, app, review>>

\* reader.onload of the FileReader reading f: setImagePreview(...)
VqaPreviewLoaded(f) ==
  /\ f \in vqa.reading
  /\ vqa' = [vqa EXCEPT !.preview = f, !.reading = vqa.reading \ {f}]
  /\ UNCHANGED <<httpVars, feature, pair, app, review>>

\* handleRemoveImage
VqaRemoveImage ==
  /\ vqa' = [vqa EXCEPT !.image = "null", !.preview = "", !.result = "null",
                        !.input = ""]
  /\ UNCHANGED <<httpVars, feature, pair, app, review>>

\* the question field: setQuestion(e.target.value)
VqaSetQuestion(t) ==
  /\ vqa' = [vqa EXCEPT !.question = t]
  /\ UNCHANGED <<httpVars, feature, pair, app, review>>

\* the bodies the visual-qa endpoint answers with: a JSON value, or not JSON
VqaBodies == {"v1", "nonJson"}

\* VisualQA.handleSubmit up to its first await
VqaSubmit ==
  /\ vqa.pc = "idle"
  /\ IF vqa.image = "null" \/ Trim(vqa.question) = ""
       THEN vqa' = [vqa EXCEPT !.error = "Please upload an image and enter a question"]
       ELSE vqa' = [vqa EXCEPT !.pc = "fetch", !.loading = TRUE, !.error = "null"]
  /\ UNCHANGED <<httpVars, feature, pair, app, review>>

\* the catch and the finally of handleSubmit for an error with message msg
VqaCatch(msg) ==
  vqa' = [vqa EXCEPT !.pc = "idle", !.loading = FALSE, !.error = msg]

\* handleSubmit: await fetch('/api/v1/visual-qa', ...) resolves
VqaRespond(status) ==
  /\ vqa.pc = "fetch"
  /\ IF IsOk(status)
       THEN vqa' = [vqa EXCEPT !.pc = "json"]
       ELSE VqaCatch("Failed to process image")
  /\ UNCHANGED <<httpVars, feature, pair, app, review>>

\* handleSubmit: await fetch('/api/v1/visual-qa', ...) rejects
VqaNetworkError ==
  /\ vqa.pc = "fetch"
  /\ VqaCatch(NetworkError.message)
  /\ UNCHANGED <<httpVars, feature, pair, app, review>>

\* handleSubmit: await response.json() settles
VqaJsonDone(body) ==
  /\ vqa.pc = "json"
  /\ IF JsonDecodes(body)
       THEN vqa' = [vqa EXCEPT !.pc = "idle", !.loading = FALSE, !.result = body]
       ELSE VqaCatch(DecodeError.message)
  /\ UNCHANGED <<httpVars, feature, pair, app, review>>

\* ------------------------------------------------------------------------
\* The App component
\* ------------------------------------------------------------------------

\* a ?? b
Coalesce(a, b) == IF a \in {"null", "undefined"} THEN b ELSE a

\* setSumOut(null); setFcOut(null); setQuizOut(null); setKwOut(null); setParaOut(null)
NoOutputs == [f \in Features |-> "null"]

RunKeepsOutputs ==
  /\ ~app.loading
  /\ IF Trim(app.text) = ""
       THEN /\ app' = [app EXCEPT !.error = "Please paste some text first."]
            /\ UNCHANGED <<httpVars, feature, vqa, pair, review>>
       ELSE /\ app' = [app EXCEPT !.error = "null",
                                  !.loading = TRUE, !.pc = "await"]
            /\ PostJSON(app.tab)

\* run() up to its return or its await; the button is disabled while loading
Run ==
  /\ ~app.loading
  /\ IF Trim(app.text) = ""
       THEN /\ app' = [app EXCEPT !.error = "Please paste some text first.",
                                  !.out = NoOutputs]
            /\ UNCHANGED <<httpVars, feature, vqa, pair, review>>
       ELSE /\ app' = [app EXCEPT !.error = "null", !.out = NoOutputs,
                                  !.loading = TRUE, !.pc = "await"]
            /\ PostJSON(app.tab)

RunResumeNoFinally ==
  /\ app.pc = "await"
  /\ pc = "done"
  /\ IF result.state = "resolved"
       THEN app' = [app EXCEPT !.pc = "idle", !.loading = FALSE,
                               !.out[feature] = result.value]
       ELSE app' = [app EXCEPT !.pc = "idle",
                               !.error = Coalesce(result.error.message, "Request failed")]
  /\ UNCHANGED <<httpVars, feature, vqa, pair, review>>

\* run() after its await: the promise of the api method has settled; the
\* setter of the branch taken, or the catch, and the finally
RunResume ==
  /\ app.pc = "await"
  /\ pc = "done"
  /\ IF result.state = "resolved"
       THEN app' = [app EXCEPT !.pc = "idle", !.loading = FALSE,
                               !.out[feature] = result.value]
       ELSE app' = [app EXCEPT !.pc = "idle", !.loading = FALSE,
                               !.error = Coalesce(result.error.message, "Request failed")]
  /\ UNCHANGED <<httpVars, feature, vqa, pair, review>>

\* the Clear button: clearAll()
ClearAll ==
  /\ app' = [app EXCEPT !.text = "", !.out = NoOutputs, !.error = "null"]
  /\ UNCHANGED <<httpVars, feature, vqa, pair, review>>

\* the textarea: setText(e.target.value)
SetText(t) ==
  /\ app' = [app EXCEPT !.text = t]
  /\ UNCHANGED <<httpVars, feature, vqa, pair, review>>

\* a tab button: setTab(t)
SetTab(t) ==
  /\ app' = [app EXCEPT !.tab = t]
  /\ UNCHANGED <<httpVars, feature, vqa, pair, review>>

\* ------------------------------------------------------------------------
\* The FlashcardReview component.  The answer of every card is "right".
\* ------------------------------------------------------------------------

\* what the user types into the answer field
Answers == {"", "  ", " Right", "wrong"}

\* userAnswer.toLowerCase().trim()
LowerTrim(a) ==
  CASE a \in {"", "  "} -> ""
    [] a = " Right" -> "right"
    [] OTHER -> a

\* <FlashcardReview cards={...}> is mounted with n cards
ReviewMount(n) ==
  /\ review.n = 0
  /\ review' = ReviewInit(n)
  /\ UNCHANGED <<httpVars, feature, vqa, pair, app>>

\* the effect on [currentIndex]: the per-card state of r is reset when the
\* index i differs from the one of r
CardEffect(r, i) ==
  IF i = r.currentIndex THEN r
  ELSE [r EXCEPT !.currentIndex = i, !.attempts = 0, !.isFlipped = FALSE,
                 !.showResult = FALSE, !.userAnswer = ""]

HandleNextPastEnd ==
  /\ review.n > 0
  /\ IF review.currentIndex < review.n - 1
       THEN review' = CardEffect(review, review.currentIndex + 1)
       ELSE review' = [CardEffect(review, review.currentIndex + 1)
                         EXCEPT !.completeTick = ~review.completeTick]
  /\ UNCHANGED <<httpVars, feature, vqa, pair, app>>

\* handleNext
HandleNext ==
  /\ review.n > 0
  /\ IF review.currentIndex < review.n - 1
       THEN review' = CardEffect(review, review.currentIndex + 1)
       ELSE review' = [review EXCEPT !.completeTick = ~review.completeTick]
  /\ UNCHANGED <<httpVars, feature, vqa, pair, app>>

\* handlePrevious
HandlePrevious ==
  /\ review.n > 0
  /\ review.currentIndex > 0
  /\ review' = CardEffect(review, review.currentIndex - 1)
  /\ UNCHANGED <<httpVars, feature, vqa, pair, app>>

\* handleFlip
HandleFlip ==
  /\ review.n > 0
  /\ review' = [review EXCEPT !.isFlipped = ~review.isFlipped]
  /\ UNCHANGED <<httpVars, feature, vqa, pair, app>>

\* the answer field: setUserAnswer(e.target.value)
SetAnswer(a) ==
  /\ review.n > 0
  /\ review' = [review EXCEPT !.userAnswer = a]
  /\ UNCHANGED <<httpVars, feature, vqa, pair, app>>

\* handleAnswerSubmit
HandleAnswerSubmit ==
  /\ review.n > 0
  /\ LowerTrim(review.userAnswer) # ""
  /\ review.results < MaxTries
  /\ review' = [review EXCEPT !.isCorrect = (LowerTrim(review.userAnswer) = "right"),
                              !.showResult = TRUE,
                              !.results = review.results + 1]
  /\ UNCHANGED <<httpVars, feature, vqa, pair, app>>

\* handleRetry
HandleRetry ==
  /\ review.n > 0
  /\ review.attempts < MaxTries
  /\ review' = [review EXCEPT !.attempts = review.attempts + 1,
                              !.userAnswer = "", !.showResult = FALSE]
  /\ UNCHANGED <<httpVars, feature, vqa, pair, app>>

ReviewNext ==
  \/ \E n \in 1..MaxCards : ReviewMount(n)
  \/ HandleNext
  \/ HandlePrevious
  \/ HandleFlip
  \/ \E a \in Answers : SetAnswer(a)
  \/ HandleAnswerSubmit
  \/ HandleRetry

ReviewSpec == Init /\ [][ReviewNext]_vars

\* ------------------------------------------------------------------------
\* Two calls of fetchJSON interleaved, neither with a signal.  One attempt
\* ends in one step, with the error e it throws, NoError for a response
\* that is ok and decodes.
\* ------------------------------------------------------------------------

\* what one attempt can end with
PairErrors == {NoError, AbortError, NetworkError,
               HttpError(503, "undefined"), HttpError(404, "undefined")}

\* what a call settles with when its last attempt ends with e
PairOutcome(e) == IF e = NoError THEN Resolved("v1") ELSE Rejected(Surfaced(e), "none")

NextAttemptShared(p, i) ==
  LET other == CHOOSE j \in PairIds : j # i
  IN  (IF p[i].attempt >= p[other].attempt THEN p[i].attempt ELSE p[other].attempt) + 1

\* attempt += 1, on the `let attempt` of call i
NextAttempt(p, i) == p[i].attempt + 1

\* fetchJSON(path, init, {retries: r}) is called: the first iteration up to
\* await fetch
PairCall(i, r) ==
  /\ pair[i].pc = "idle"
  /\ pair' = [pair EXCEPT ![i] =
                [pc |-> "fetch", retries |-> r, attempt |-> NextAttempt(pair, i),
                 timer |-> TRUE, aborted |-> FALSE, seen |-> <<>>,
                 result |-> Pending]]
  /\ UNCHANGED <<httpVars, appVars>>

\* the deadline timer of call i fires: controller.abort()
PairTimerFire(i) ==
  /\ pair[i].timer
  /\ pair' = [pair EXCEPT ![i].timer = FALSE, ![i].aborted = TRUE]
  /\ UNCHANGED <<httpVars, appVars>>

\* the attempt of call i ends with e: return, or the catch and the finally
PairAttemptEnd(i, e) ==
  /\ pair[i].pc = "fetch"
  /\ IsAbort(e) <=> pair[i].aborted
  /\ LET c == pair[i]
          seen == Append(c.seen, e)
     IN  IF e # NoError /\ ShouldRetry(c.attempt, c.retries, e)
           THEN pair' = [pair EXCEPT ![i].pc = "sleep", ![i].seen = seen,
                                     ![i].timer = FALSE]
           ELSE pair' = [pair EXCEPT ![i].pc = "done", ![i].seen = seen,
                                     ![i].timer = FALSE,
                                     ![i].result = PairOutcome(e)]
  /\ UNCHANGED <<httpVars, appVars>>

\* await sleep(retryDelayMs) of call i is over: the next iteration up to
\* await fetch
PairSleepDone(i) ==
  /\ pair[i].pc = "sleep"
  /\ pair' = [pair EXCEPT ![i].pc = "fetch", ![i].attempt = NextAttempt(pair, i),
                          ![i].timer = TRUE, ![i].aborted = FALSE]
  /\ UNCHANGED <<httpVars, appVars>>

PairNext ==
  \/ \E i \in PairIds, r \in 0..MaxRetries : PairCall(i, r)
  \/ \E i \in PairIds : PairTimerFire(i)
  \/ \E i \in PairIds, e \in PairErrors : PairAttemptEnd(i, e)
  \/ \E i \in PairIds : PairSleepDone(i)

PairSpec == Init /\ [][PairNext]_vars

Next ==
  \/ \E o \in Timings, r \in 0..MaxRetries, sig \in BOOLEAN :
        CallWith(o.timeoutMs, r, o.retryDelayMs, sig)
  \/ FetchAbort
  \/ FetchNetworkError
  \/ \E s \in Statuses, b \in Bodies : FetchRespond(s, b)
  \/ ErrBodyDone
  \/ DecodeDone
  \/ SleepDone
  \/ TimerFire
  \/ CallerAbort

Spec == Init /\ [][Next]_vars

\* Timers fire, rejections and body reads are delivered; the transport need
\* not answer and the caller need not abort.
FairSpec ==
  /\ Spec
  /\ WF_vars(TimerFire)
  /\ WF_vars(SleepDone)
  /\ WF_vars(FetchAbort)
  /\ WF_vars(ErrBodyDone)
  /\ WF_vars(DecodeDone)

\* The application: App.run is the only caller of the api object, which is
\* the only caller of fetchJSON and passes no signal.
AppNext ==
  \/ Run
  \/ RunResume
  \/ ClearAll
  \/ \E t \in Texts : SetText(t)
  \/ \E t \in Features : SetTab(t)
  \/ FetchAbort
  \/ FetchNetworkError
  \/ \E s \in Statuses, b \in Bodies : FetchRespond(s, b)
  \/ ErrBodyDone
  \/ DecodeDone
  \/ SleepDone
  \/ TimerFire

AppSpec == Init /\ [][AppNext]_vars

\* The VisualQA component alone
VqaNext ==
  \/ \E f \in Files : VqaUpload(f)
  \/ \E f \in {g.name : g \in Files} : VqaPreviewLoaded(f)
  \/ VqaRemoveImage
  \/ \E t \in {"  ", "why"} : VqaSetQuestion(t)
  \/ VqaSubmit
  \/ \E s \in Statuses : VqaRespond(s)
  \/ VqaNetworkError
  \/ \E b \in VqaBodies : VqaJsonDone(b)

VqaSpec == Init /\ [][VqaNext]_vars

TypeOK ==
  /\ callNo \in 0..MaxCalls
  /\ pc \in {"idle", "fetch", "errbody", "decode", "sleep", "done"}
  /\ retries \in 0..MaxRetries
  /\ attempt \in 0..(MaxRetries + 1)
  /\ timers \subseteq (CallIds \X (1..(MaxRetries + 1)))
  /\ listeners \subseteq (CallIds \X (1..(MaxRetries + 1)))

\* ------------------------------------------------------------------------
\* Properties
\* ------------------------------------------------------------------------

Active == pc \in {"fetch", "errbody", "decode", "sleep"}

\* a rejection that tells the caller the call was cancelled, as opposed to
\* the timeout error
IsCancellation(r) == r.state = "rejected" /\ r.error.name = "AbortError"

\* C1: during one call, fetch is invoked at most retries + 1 times, whatever
\* the transport, the timers and the caller do.
C1_AttemptsBounded == fetchCalls <= retries + 1

C1_Witness == pc = "done" /\ retries >= 1 /\ fetchCalls = retries + 1

\* C2: when the caller's signal is already aborted at the call, fetch is
\* never invoked and the call fails with a cancellation error.
C2_PreAbortedNoTransport ==
  cancelAt = "before" =>
    /\ fetchCalls = 0
    /\ (pc = "done" => IsCancellation(result))

\* C3: once the caller's signal fired while fetch was in flight, the call
\* invokes fetch no more and, when it settles, fails with a cancellation
\* error.
C3_CancelInFlightStops ==
  [][(cancelAt = "fetch" /\ callNo' = callNo) =>
        /\ fetchCalls' = fetchCalls
        /\ (pc' = "done" => IsCancellation(result'))]_vars

\* C4: a call ended by the caller's abort and a call ended by the deadline
\* never surface the same error.
C4_Distinguishable ==
  \A x \in abortLog, y \in abortLog :
     (x[1] = "caller" /\ y[1] = "deadline") => x[2] # y[2]

\* C5: every call eventually settles, exactly once, provided timers fire.
C5_SettlesOnce == [](Active => <>(pc = "done" /\ settles = 1))

\* C6: the signal handed to fetch is aborted once the deadline of the
\* attempt has elapsed, and once the caller's signal has fired.
C6_EffectiveSignalFires ==
  pc = "fetch" =>
    /\ (controllerAborted => FetchSignalAborted)
    /\ ((hasSignal /\ signalAborted) => FetchSignalAborted)

\* C7: once a call has settled, on any path, none of its deadline timers is
\* pending.
C7_NoTimersAfterSettle == pc = "done" => timers = {}

C7_Witness == pc = "done" /\ result.error = TimeoutError /\ fetchCalls >= 2

\* C8: once a call has settled, no listener it registered is still attached
\* to the caller's signal, also after repeated calls.
C8_ListenersReleased ==
  pc = "done" => {l \in listeners : l[1] <= callNo} = {}

\* C9: after a 2xx response of attempt k the call invokes fetch no more,
\* and when the body decodes it resolves with the value decoded from that
\* response; a settled call stays as it is.
C9_SuccessEndsCall ==
  [][/\ (pc = "decode" /\ callNo' = callNo) =>
          /\ fetchCalls' = fetchCalls
          /\ pc' \in {"decode", "done"}
          /\ (result'.state = "resolved" => result'.value = res.body)
          /\ ((pc' = "done" /\ JsonDecodes(res.body) /\ ~FetchSignalAborted)
                => result' = Resolved(res.body))
     /\ (pc = "done" /\ callNo' = callNo) =>
          (fetchCalls' = fetchCalls /\ result' = result)]_vars

C9_Witness == pc = "done" /\ result = Resolved("v2") /\ fetchCalls = 2

\* C10: a failed attempt is followed by a retry delay and another attempt
\* exactly when budget remains and the failure was the deadline or an HTTP
\* 502, 503 or 504.
TransientCause(c, e) ==
  c = "deadline" \/ (c = "http" /\ e.status \in {502, 503, 504})

C10_TransientIff ==
  /\ pc = "sleep" => TransientCause(caught.cause, caught.err)
  /\ (pc = "done" /\ result.state = "rejected" /\ result.cause # "decode"
        /\ attempt <= retries)
       => ~TransientCause(result.cause, result.error)

\* C11: after a non-2xx response whose status is not 502, 503 or 504 the
\* call waits no retry delay and invokes fetch no more: it rejects with an
\* HttpError carrying that status, whatever retries is.
C11_FatalStatusSurfaced ==
  [][(pc = "errbody" /\ res.status \notin {502, 503, 504}) =>
        /\ pc' \in {"errbody", "done"}
        /\ fetchCalls' = fetchCalls
        /\ sleeps' = sleeps
        /\ waited' = waited
        /\ (pc' = "done" =>
              /\ result'.state = "rejected"
              /\ result'.error.name = "HttpError"
              /\ result'.error.status = res.status)]_vars

C11_Witness ==
  /\ pc = "done"
  /\ result.error.name = "HttpError"
  /\ result.error.status = 500
  /\ fetchCalls = 1
  /\ retries >= 1

\* C12: after a 2xx response whose body does not decode the call fails and
\* invokes fetch no more, also when attempt <= retries.
C12_MalformedSuccessIsFatal ==
  [][(pc = "decode" /\ ~JsonDecodes(res.body)) =>
        /\ pc' \in {"decode", "done"}
        /\ fetchCalls' = fetchCalls
        /\ sleeps' = sleeps
        /\ (pc' = "done" => result'.state = "rejected")]_vars

C12_Witness ==
  pc = "done" /\ result.error = DecodeError /\ attempt <= retries

\* the transport has given no answer and no network error, and the caller's
\* signal has not fired
NoAnswerNoCancel ==
  /\ pc \notin {"errbody", "decode"}
  /\ "network" \notin causes
  /\ ~signalAborted

\* C13: when the caller's signal never fires and no attempt gets an answer,
\* the call ends after exactly retries + 1 attempts with the timeout error.
C13_AllTimeouts ==
  ([]NoAnswerNoCancel) =>
     [](Active => <>(/\ pc = "done"
                     /\ result.error = TimeoutError
                     /\ fetchCalls = retries + 1))

\* C14: when every attempt so far was answered with 502, 503 or 504, the
\* call retries while attempt <= retries, and it rejects only after
\* retries + 1 attempts, with an HttpError that carries the status, the
\* decoded body and the message taken from the body's error field or else
\* synthesized.
C14_TransientBudgetExhausted ==
  [][(pc = "errbody" /\ res.status \in {502, 503, 504} /\ causes \subseteq {"http"}) =>
        /\ (attempt <= retries => pc' \in {"errbody", "sleep"})
        /\ (pc' = "done" =>
              /\ fetchCalls' = retries + 1
              /\ result'.state = "rejected"
              /\ result'.error.name = "HttpError"
              /\ result'.error.status = res.status
              /\ result'.error.body \in
                   {IF res.body = "nonJson" THEN "undefined" ELSE res.body}
                     \cup (IF FetchSignalAborted THEN {"undefined"} ELSE {})
              /\ result'.error.message =
                   CASE result'.error.body = "errObj" -> "not found"
                     [] result'.error.body = "errNum" -> "42"
                     [] OTHER -> SynthesizedMessage(res.status))]_vars

C14_Witness ==
  /\ pc = "done"
  /\ causes = {"http"}
  /\ result.error = MkError("HttpError", "not found", 503, "errObj")
  /\ retries >= 1
  /\ fetchCalls = retries + 1

\* C15: at most one fetch of a call is in flight at any moment, and a
\* further attempt starts only after the previous one has ended in a failure.
C15_Sequential ==
  /\ [](Cardinality(inflight) <= 1)
  /\ [][(fetchCalls' = fetchCalls + 1 /\ callNo' = callNo) =>
          (pc = "sleep" /\ inflight = {} /\ caught.err # NoError)]_vars

C15_Witness == pc = "fetch" /\ attempt = 2 /\ inflight = {<<callNo, 2>>}

\* C16: a call that has issued n attempts has waited n - 1 retry delays of
\* retryDelayMs each, and n while it waits for the next attempt; no delay
\* follows the attempt that ends the call.
C16_OneDelayBetweenAttempts ==
  pc # "idle" =>
    /\ sleeps = (IF pc = "sleep" THEN fetchCalls ELSE fetchCalls - 1)
    /\ waited = sleeps * retryDelayMs

C16_Witness ==
  /\ pc = "done"
  /\ retries = 1
  /\ retryDelayMs = 600
  /\ causes = {"http"}
  /\ result = Resolved("v1")
  /\ fetchCalls = 2
  /\ waited = 600

\* C17: the HttpError thrown for a non-2xx response has as message the error
\* field of the decoded body when the body is a JSON object with an error
\* field, and "HTTP <status> <statusText>" otherwise.
C17_ErrorMessage ==
  [][(pc = "errbody" /\ pc' # "errbody") =>
        LET e == IF pc' = "sleep" THEN caught'.err ELSE result'.error IN
          /\ e.name = "HttpError"
          /\ ((JsonDecodes(res.body) /\ ~FetchSignalAborted) => e.body = res.body)
          /\ (~JsonDecodes(res.body) => e.body = "undefined")
          /\ e.message = CASE e.body = "errObj" -> "not found"
                           [] e.body = "errNum" -> "42"
                           [] OTHER -> SynthesizedMessage(res.status)
          /\ ((res.status = 500 /\ res.body = "nonJson")
                => e.message = "HTTP 500 Internal Server Error")]_vars

C17_Witness ==
  pc = "done" /\ result.error = MkError("HttpError", "not found", 404, "errObj")

\* C18: once the caller's signal fired during the retry delay, the call
\* invokes fetch no more and, when it settles, fails with a cancellation
\* error.
C18_CancelInDelayStops ==
  [][(cancelAt = "sleep" /\ callNo' = callNo) =>
        /\ fetchCalls' = fetchCalls
        /\ (pc' = "done" => IsCancellation(result'))]_vars

\* C19: a call never has more than one listener attached to the caller's
\* signal.
C19_OneListenerPerCall ==
  Cardinality({l \in listeners : l[1] = callNo}) <= 1

\* C20: an attempt that starts while the caller's signal is already fired
\* creates no deadline timer.
C20_NoTimerWhenPreAborted ==
  [][(hasSignal' /\ signalAborted /\ (attempt' # attempt \/ callNo' # callNo)) =>
        <<callNo', attempt'>> \notin timers']_vars

\* C21: once an attempt has been aborted, by its deadline or by the caller's
\* signal, no response is accepted for it; and a call resolves with the
\* value decoded from the response of the last attempt issued.
C21_LateResponseDiscarded ==
  [][/\ (pc = "fetch" /\ (controllerAborted \/ (hasSignal /\ signalAborted)))
          => pc' \notin {"decode", "errbody"}
     /\ (pc = "decode" /\ result'.state = "resolved")
          => (result'.value = res.body /\ attempt = fetchCalls)]_vars

\* C22: a call that rejects surfaces the timeout error exactly when its last
\* attempt was ended by the deadline, and otherwise the last attempt's own
\* error.
C22_SurfacedErrorOfLastAttempt ==
  (pc = "done" /\ result.state = "rejected") =>
     /\ (result.error = TimeoutError) <=> (result.cause = "deadline")
     /\ (result.cause = "http" => result.error.name = "HttpError")
     /\ (result.cause = "network" => result.error = NetworkError)

\* C23: at most one deadline timer is pending at any moment, none while the
\* call waits in the retry delay, and every attempt starts with a timer of
\* its own.
C23_OneTimerPerAttempt ==
  /\ [](Cardinality(timers) <= 1 /\ (pc = "sleep" => timers = {}))
  /\ [][(attempt' # attempt \/ callNo' # callNo) =>
          timers' = {<<callNo', attempt'>>}]_vars

C23_Witness ==
  pc = "sleep" /\ caught.cause = "http" /\ ~controllerAborted /\ timers = {}

\* C24: a non-2xx response always ends in an HttpError carrying the status
\* of the response; when the body cannot be read or decoded the error has
\* body undefined and the synthesized message.
C24_ErrorBodyNeverThrows ==
  [][(pc = "errbody" /\ pc' # "errbody") =>
        LET e == IF pc' = "sleep" THEN caught'.err ELSE result'.error IN
          /\ e.name = "HttpError"
          /\ e.status = res.status
          /\ (~JsonDecodes(res.body) => e.body = "undefined")
          /\ (e.body = "undefined" => e.message = SynthesizedMessage(res.status))]_vars

C24_Witness ==
  /\ pc = "done"
  /\ result = Rejected(MkError("HttpError", "HTTP 404 Not Found", 404, "undefined"), "http")

\* C25: a network error ends the call at once: the call rejects with that
\* error, starts no retry delay and invokes fetch no more, whatever retries
\* is.
C25_NetworkErrorIsFatal ==
  [][("network" \notin causes /\ "network" \in causes') =>
        /\ pc' = "done"
        /\ result' = Rejected(NetworkError, "network")
        /\ fetchCalls' = fetchCalls
        /\ sleeps' = sleeps]_vars

C25_Witness ==
  pc = "done" /\ result.error = NetworkError /\ attempt <= retries /\ sleeps = 0

\* C26: the signal handed to fetch never goes back from aborted to not
\* aborted during an attempt, and every attempt that starts after the
\* caller's signal fired has its signal aborted from the start.
C26_EffectiveSignalMonotonic ==
  /\ []((pc = "fetch" /\ hasSignal /\ signalAborted) => FetchSignalAborted)
  /\ [][(FetchSignalAborted /\ attempt' = attempt /\ callNo' = callNo)
          => FetchSignalAborted']_vars

C26_Witness ==
  /\ pc = "fetch"
  /\ attempt >= 2
  /\ cancelAt \in {"fetch", "sleep"}
  /\ FetchSignalAborted

\* C27: a step that changes the caller's signal is the caller's: it fires
\* the signal and moves nothing of the call; no step of fetchJSON or of its
\* timers changes the signal.
C27_CallerSignalUntouched ==
  [][signalAborted' # signalAborted =>
        /\ signalAborted'
        /\ UNCHANGED <<callNo, pc, attempt, timers, controllerAborted, res,
                       caught, result, fetchCalls, sleeps>>]_vars

C27_Witness ==
  pc = "done" /\ hasSignal /\ ~signalAborted /\ fetchCalls >= 2

\* the features that wait for a transport call they made
FeatureFetches ==
  (IF vqa.pc = "fetch" THEN {"visual-qa"} ELSE {})
    \cup (IF pc = "fetch" /\ feature # "none" THEN {feature} ELSE {})

\* the features whose pending transport call is an attempt of fetchJSON
DispatcherFetches == IF pc = "fetch" /\ feature # "none" THEN {feature} ELSE {}

\* C29: every transport call a feature waits for is an attempt of fetchJSON,
\* under that attempt's deadline timer.
C29_AllThroughDispatcher ==
  \A f \in FeatureFetches :
     /\ f \in DispatcherFetches
     /\ (timers = {Cur} \/ controllerAborted)

\* C30: a call made through the api object runs with timeoutMs 15000,
\* retries 1, retryDelayMs 600 and no signal; it invokes fetch at most twice
\* and starts at most one retry delay.
C30_FacadeDefaults ==
  feature \in Features =>
     /\ timeoutMs = 15000
     /\ retries = 1
     /\ retryDelayMs = 600
     /\ ~hasSignal
     /\ fetchCalls <= 2
     /\ sleeps <= 1
     /\ waited <= 600

C30_Witness ==
  feature \in Features /\ pc = "done" /\ fetchCalls = 2 /\ sleeps = 1 /\ waited = 600

\* What a call with retries r that runs alone settles with when its
\* attempts end with outs[k], outs[k + 1], ...: the loop of fetchJSON as a
\* function of the transport's outcomes.
RECURSIVE Alone(_, _, _)
Alone(r, outs, k) ==
  IF k > Len(outs) THEN Pending
  ELSE IF outs[k] # NoError /\ ShouldRetry(k, r, outs[k])
         THEN Alone(r, outs, k + 1)
         ELSE PairOutcome(outs[k])

\* C28: of two calls that run interleaved, a step of one changes nothing of
\* the other, and each call makes the attempts and settles with the outcome
\* that the outcomes of its own attempts give a call that runs alone.
C28_InterleavedCallsIndependent ==
  /\ [](\A i \in PairIds :
          /\ pair[i].result = Alone(pair[i].retries, pair[i].seen, 1)
          /\ pair[i].pc \in {"sleep", "done"} => pair[i].attempt = Len(pair[i].seen)
          /\ pair[i].pc = "fetch" => pair[i].attempt = Len(pair[i].seen) + 1
          /\ pair[i].pc \in {"sleep", "done"} => ~pair[i].timer)
  /\ [][\A i \in PairIds, j \in PairIds :
          (i # j /\ pair'[i] # pair[i]) => pair'[j] = pair[j]]_vars

C28_Witness ==
  /\ pair["a"].pc = "done" /\ pair["a"].attempt = 2
  /\ pair["a"].result.state = "resolved"
  /\ pair["b"].pc = "done" /\ pair["b"].attempt = 3
  /\ pair["b"].result = Rejected(TimeoutError, "none")

\* C31: while the body of a 2xx response is decoded the attempt's deadline
\* timer is no longer pending and the deadline cannot abort the attempt; the
\* call then settles without a retry delay and without another fetch, and
\* never with the timeout error.
C31_DecodeOutsideDeadline ==
  /\ [](pc = "decode" => Cur \notin timers)
  /\ [][pc = "decode" =>
          /\ pc' \in {"decode", "done"}
          /\ controllerAborted' = controllerAborted
          /\ fetchCalls' = fetchCalls
          /\ sleeps' = sleeps
          /\ caught' = NoCaught
          /\ (pc' = "done" =>
                (result'.error # TimeoutError /\ result'.cause # "deadline"))]_vars

C31_Witness ==
  /\ pc = "decode"
  /\ ~JsonDecodes(res.body)
  /\ attempt <= retries
  /\ timers = {}
  /\ "deadline" \in causes

\* a feature call of App.run is outstanding: fetchJSON has not settled, or
\* it has and run has not yet resumed from its await
Outstanding == Active \/ (pc = "done" /\ app.pc = "await")

\* C32: App's loading flag is true exactly while the feature call of run is
\* outstanding, and false after run resumed from a call that resolved or
\* rejected; run on a text that trims to empty makes no call, sets the
\* error "Please paste some text first." and leaves loading false.
C32_LoadingTracksCall ==
  /\ [](app.loading <=> Outstanding)
  /\ [][/\ callNo' # callNo => (Trim(app.text) # "" /\ app'.loading)
        /\ (app.pc = "await" /\ app'.pc = "idle") => ~app'.loading
        /\ (~app.loading /\ Trim(app.text) = "" /\ app'.error # app.error) =>
              /\ app'.error \in {"null", "Please paste some text first."}
              /\ callNo' = callNo
              /\ fetchCalls' = fetchCalls
              /\ ~app'.loading]_vars

C32_Witness ==
  /\ ~app.loading
  /\ pc = "done"
  /\ result.state = "rejected"
  /\ app.error = result.error.message
  /\ callNo = 1

\* the outputs of App that are not null
Outputs == {f \in Features : app.out[f] # "null"}

\* C33: at most one of the five outputs of App is not null, and an error
\* message and an output are never both present.
C33_OneOutputNoError ==
  /\ Cardinality(Outputs) <= 1
  /\ (app.error # "null" => Outputs = {})

C33_Witness ==
  /\ callNo = 2
  /\ ~app.loading
  /\ app.tab = "summarize"
  /\ app.text = ""
  /\ Outputs = {"quiz"}

\* C34: with a deck that is not empty the current index stays within
\* 0 .. cards.length - 1; onReviewComplete is invoked only by handleNext on
\* the last card, which leaves the index where it is.
C34_IndexInDeck ==
  /\ [](review.n > 0 =>
          (review.currentIndex >= 0 /\ review.currentIndex <= review.n - 1))
  /\ [][review'.completeTick # review.completeTick =>
          /\ review.currentIndex = review.n - 1
          /\ review'.currentIndex = review.currentIndex
          /\ review' = [review EXCEPT !.completeTick = ~review.completeTick]]_vars

C34_Witness ==
  /\ review.n = 3
  /\ review.currentIndex = 2
  /\ review.completeTick
  /\ review.results = 2
  /\ review.showResult

\* the file of the file input
FileNamed(name) == CHOOSE f \in Files : f.name = name

\* C35: handleImageUpload for a file larger than 10 MB, or of a type that
\* does not start with "image/", sets an error message and leaves image and
\* preview as they were; for any other file it makes the file the image and
\* clears the error.
C35_UploadValidation ==
  [][(vqa'.input # vqa.input /\ vqa'.input # "") =>
        LET f == FileNamed(vqa'.input) IN
          IF f.size > 10 * 1024 * 1024 \/ f.type \notin {"image/png", "image/jpeg"}
            THEN /\ vqa'.error \notin {"null", ""}
                 /\ vqa'.image = vqa.image
                 /\ vqa'.preview = vqa.preview
            ELSE /\ vqa'.image = f.name
                 /\ vqa'.error = "null"]_vars

C35_Witness ==
  /\ vqa.input = "huge.png"
  /\ vqa.error = "Image size must be less than 10MB"
  /\ vqa.image = "b.jpg"
  /\ vqa.preview = "b.jpg"

====
